---- MODULE Spec2Model ----
(***************************************************************************)
(* hidden_zip (src/main.go): find local file headers in a Zip archive by   *)
(* scanning the raw bytes for the signature 0x04034b50, decoding the       *)
(* header that follows and printing "<name> at <offset> len <size>".       *)
(*                                                                         *)
(* The file is a sequence of bytes (0..255) and a cursor.  Offsets are     *)
(* 0-based as in the Go code; Go's s[a:b] is Slice(s, a, b).               *)
(*                                                                         *)
(* Two sizes of the program are scaled down so that every position of a    *)
(* signature relative to a read chunk and to the end of the file can be    *)
(* enumerated: BufSize stands for the 4096 of make([]byte, 4096) and       *)
(* MaxNameExtra for the 255 of the plausibility test and of                *)
(* headersize := 30 + 255.  The 26-byte fixed layout, the 4-byte           *)
(* signature and the widths of the fields are the program's own.           *)
(***************************************************************************)
EXTENDS Integers, Sequences, FiniteSets, TLC

\* ---------------------------------------------------------------- bounds
\* scanReader's buffer: make([]byte, 4096), scaled.
BufSize == 48
\* "assume maximum file and extra length of 255", scaled.
MaxNameExtra == 5

\* ------------------------------------------------------ program constants
fileHeaderSignature == 67324752
\* bytes of the fixed fields that follow the signature (rest[26 : ...])
FixedLen == 26
\* the 30 of headersize := 30 + 255
HeaderBase == 30

\* ----------------------------------------------------------- byte helpers
Min(a, b) == IF a < b THEN a ELSE b

\* Go's s[a:b] on a sequence (0-based, half open)
Slice(s, a, b) == SubSeq(s, a + 1, b)

\* make([]byte, k)
Zeros(k) == [i \in 1..k |-> 0]

\* binary.Write(..., binary.LittleEndian, uint16/uint32)
LE16(x) == << x % 256, (x \div 256) % 256 >>
LE32(x) == << x % 256, (x \div 256) % 256, (x \div 65536) % 256, (x \div 16777216) % 256 >>

\* sep.Bytes(): the signature as it lies in the file
Sep == LE32(fileHeaderSignature)

\* headersize := 30 + 255
HeaderSize == HeaderBase + MaxNameExtra

\* bytes.Index(s, sep): 0-based index of the first occurrence, or -1
Index(s, sep) ==
  LET hits == { i \in 0..(Len(s) - Len(sep)) : Slice(s, i, i + Len(sep)) = sep }
  IN  IF hits = {} THEN -1 ELSE CHOOSE i \in hits : \A j \in hits : i <= j

\* binary.Read(buf, binary.LittleEndian, &u16) on the bytes.Buffer over rest,
\* for the field that starts at byte o: io.ReadFull fails when fewer than 2
\* bytes are left, the error is dropped and the field keeps its zero value.
ReadU16(rest, o) ==
  IF o + 2 <= Len(rest) THEN rest[o + 1] + 256 * rest[o + 2] ELSE 0

ReadU32(rest, o) ==
  IF o + 4 <= Len(rest)
  THEN rest[o + 1] + 256 * rest[o + 2] + 65536 * rest[o + 3] + 16777216 * rest[o + 4]
  ELSE 0

\* ------------------------------------------------------------ FileHeader
\* type FileHeader (all ten fixed fields, name, extra); the zero value of
\* "var h FileHeader"
ZeroHeader ==
  [ version |-> 0, flags |-> 0, compression |-> 0, mtime |-> 0, mdate |-> 0,
    namelen |-> 0, extralen |-> 0, crc32 |-> 0, csize |-> 0, size |-> 0,
    name |-> << >>, extra |-> << >> ]

\* the ten binary.Read calls, in the order of the code: each field is read
\* from the bytes that follow the previous one
ReadFixed(rest) ==
  [ ZeroHeader EXCEPT
      !.version     = ReadU16(rest, 0),
      !.flags       = ReadU16(rest, 2),
      !.compression = ReadU16(rest, 4),
      !.mtime       = ReadU16(rest, 6),
      !.mdate       = ReadU16(rest, 8),
      !.crc32       = ReadU32(rest, 10),
      !.csize       = ReadU32(rest, 14),
      !.size        = ReadU32(rest, 18),
      !.namelen     = ReadU16(rest, 22),
      !.extralen    = ReadU16(rest, 24) ]

\* h.namelen > 255 || h.extralen > 255 || h.namelen+h.extralen > 255
\* (uint16 arithmetic)
Implausible(h) ==
  \/ h.namelen > MaxNameExtra
  \/ h.extralen > MaxNameExtra
  \/ (h.namelen + h.extralen) % 65536 > MaxNameExtra

\* h.name = string(rest[26 : 26+h.namelen]) and
\* h.extra = append(h.extra, rest[26+h.namelen : 26+h.namelen+h.extralen]...);
\* a Go slice may be re-sliced up to its capacity, so the bytes come from the
\* backing array: rest followed by what lies behind it.
WithNameExtra(h, backing) ==
  [ h EXCEPT
      !.name  = Slice(backing, FixedLen, FixedLen + h.namelen),
      !.extra = Slice(backing, FixedLen + h.namelen, FixedLen + h.namelen + h.extralen) ]

\* a carry-over that is one byte short
CarryLenShort(sep) == Len(sep) - 2

\* len(sep) - 1: the bytes carried over to the front of the buffer
CarryLen(sep) == Len(sep) - 1

\* the slice scanReader returns: buf[idx+len(sep) : n]
AfterSep(buf, idx, sep, n) == Slice(buf, idx + Len(sep), n)

\* the region nextFileHeader keeps after the top-up read of k bytes into
\* grown = append(rest, make([]byte, headersize)...):
\* rest[len(rest)-headersize : len(rest)-headersize+n]
ToppedUp(grown, k) ==
  Slice(grown, Len(grown) - HeaderSize, Len(grown) - HeaderSize + k)

\* a rewind to the start of the signature
RewindToSigStart(p, rest) == p - Len(rest) - 4

\* a rewind to one byte behind the start of the signature
RewindToSigPlusOne(p, rest) == p - Len(rest) - 3

\* r.Seek(-int64(len(rest)), io.SeekCurrent) on rejection
RewindPos(p, rest) == p - Len(rest)

\* r.Seek(-int64(len(rest))+26+int64(h.namelen)+int64(h.extralen), io.SeekCurrent)
AcceptPos(p, rest, h) == p - Len(rest) + FixedLen + h.namelen + h.extralen

\* -------------------------------------------------------- the input files
Pad(k, b) == [i \in 1..k |-> b]

\* a local file header as an archiver writes it
EncodeHeader(h) ==
  Sep \o LE16(h.version) \o LE16(h.flags) \o LE16(h.compression)
      \o LE16(h.mtime) \o LE16(h.mdate)
      \o LE32(h.crc32) \o LE32(h.csize) \o LE32(h.size)
      \o LE16(h.namelen) \o LE16(h.extralen) \o h.name \o h.extra

\* "a.txt", uncompressed size 12
HdrA ==
  [ version |-> 20, flags |-> 0, compression |-> 0, mtime |-> 30000, mdate |-> 21000,
    namelen |-> 5, extralen |-> 0, crc32 |-> 305419896, csize |-> 12, size |-> 12,
    name |-> << 97, 46, 116, 120, 116 >>, extra |-> << >> ]

\* every byte of the fixed fields different and non-zero in the high bytes
HdrB ==
  [ version |-> 3083, flags |-> 3597, compression |-> 4111, mtime |-> 4625,
    mdate |-> 5139, namelen |-> 2, extralen |-> 3, crc32 |-> 404166165,
    csize |-> 471538201, size |-> 538910237,
    name |-> << 120, 121 >>, extra |-> << 101, 102, 103 >> ]

\* a coincidental signature: 22 bytes, then implausible length fields
BadLens == { << MaxNameExtra + 1, 0 >>, << MaxNameExtra, 1 >>, << 256, 0 >> }
EncodeBad(l) == Sep \o Pad(22, 7) \o LE16(l[1]) \o LE16(l[2])

\* the bytes around the headers: zeros, which decode as an empty plausible
\* header, or 127s, which decode as implausible lengths.  No byte of a file
\* is above 127, so that every uint32 read from it is below 2^31.
PadBytes == { 0, 127 }

\* files without the signature, some ending in a part of it
NoMagicFiles ==
  { [ bytes |-> Pad(k, b), hdrs |-> {} ] : k \in 0..(BufSize + 5), b \in PadBytes }
  \cup
  { [ bytes |-> Pad(k, 0) \o SubSeq(Sep, 1, j), hdrs |-> {} ] :
      k \in { 0, BufSize - 3, BufSize - 1 }, j \in 1..3 }

\* one header after p bytes, q bytes behind it
OneHeaderFiles ==
  { [ bytes |-> Pad(p, b) \o EncodeHeader(h) \o Pad(q, b),
      hdrs  |-> { [ at |-> p, hdr |-> h ] } ] :
      p \in 0..(BufSize + 1), q \in { 0, 12, HeaderSize, BufSize },
      h \in { HdrA, HdrB }, b \in PadBytes }

\* one coincidental signature
OneBadFiles ==
  { [ bytes |-> Pad(p, b) \o EncodeBad(l) \o Pad(q, b), hdrs |-> {} ] :
      p \in 0..(BufSize + 1), q \in { 0, 2, HeaderSize, BufSize },
      l \in BadLens, b \in PadBytes }

\* a coincidental signature and a header g bytes behind it
BadThenGoodFiles ==
  { [ bytes |-> Pad(p, b) \o Sep \o Pad(g, 127) \o EncodeHeader(HdrB) \o Pad(q, b),
      hdrs  |-> { [ at |-> p + 4 + g, hdr |-> HdrB ] } ] :
      p \in { 0, 3, BufSize - HeaderSize - 4, BufSize - 10 },
      g \in 0..HeaderSize, q \in { 0, HeaderSize, BufSize }, b \in PadBytes }

\* two headers, the second d bytes into the data of the first
TwoHeaderFiles ==
  { [ bytes |-> Pad(p, b) \o EncodeHeader(hh[1]) \o Pad(d, b)
                  \o EncodeHeader(hh[2]) \o Pad(q, b),
      hdrs  |-> { [ at |-> p, hdr |-> hh[1] ],
                  [ at |-> p + Len(EncodeHeader(hh[1])) + d, hdr |-> hh[2] ] } ] :
      p \in { 0, 1, BufSize - 12 }, d \in 0..2,
      hh \in { << HdrA, HdrB >>, << HdrB, HdrA >> },
      q \in { 0, HeaderSize, BufSize }, b \in PadBytes }

\* one header around the end of scanReader's second Read
LateHeaderFiles ==
  { [ bytes |-> Pad(p, b) \o EncodeHeader(HdrB) \o Pad(q, b),
      hdrs  |-> { [ at |-> p, hdr |-> HdrB ] } ] :
      p \in (2 * BufSize - 9)..(2 * BufSize - 2), q \in { 0, BufSize },
      b \in PadBytes }

Files ==
  NoMagicFiles \cup OneHeaderFiles \cup OneBadFiles \cup BadThenGoodFiles
    \cup TwoHeaderFiles \cup LateHeaderFiles

\* ------------------------------------------------------------- the state
VARIABLES
  data,      \* the bytes of the opened file
  made,      \* what was written into it: the headers and where (never read by the program)
  pos,       \* the cursor of the file handle f
  pc,        \* "scan", "topup", "decode", "report", "done", "panic"
  buf,       \* scanReader: buf
  start,     \* scanReader: start
  rest,      \* nextFileHeader: rest
  tail,      \* the backing array behind rest, as far as rest can be re-sliced into it
  h,         \* nextFileHeader: h, then searchFileHeaders: header
  out,       \* the lines printed by searchFileHeaders
  err,       \* the error main prints, "" while there is none
  sigStart,  \* history: file offset of the signature scanReader matched last, -1 before
  scanFrom,  \* history: cursor when the running scanReader call began
  readFrom,  \* history: cursor before the last Read of scanReader
  buffered,  \* history: len of the slice scanReader returned last
  reported,  \* history: for each printed line, the matched signature and the header returned
  rejected,  \* history: the signatures whose candidate was rejected
  found,     \* history: the signatures matched so far, in order
  event      \* history: what the last step did

vars == << data, made, pos, pc, buf, start, rest, tail, h, out, err,
           sigStart, scanFrom, readFrom, buffered, reported, rejected, found, event >>

\* os.Open(filename); the first nextFileHeader call enters scanReader
Init ==
  /\ \E f \in Files : data = f.bytes /\ made = f.hdrs
  /\ pos = 0
  /\ pc = "scan"
  /\ buf = Zeros(BufSize)
  /\ start = 0
  /\ rest = << >>
  /\ tail = << >>
  /\ h = ZeroHeader
  /\ out = << >>
  /\ err = ""
  /\ sigStart = -1
  /\ scanFrom = 0
  /\ readFrom = 0
  /\ buffered = 0
  /\ reported = << >>
  /\ rejected = {}
  /\ found = << >>
  /\ event = "open"

\* (*os.File).Read(b) with len(b) = want > 0 at cursor p: the bytes read
\* (none at or behind the end of the file, which Read reports as io.EOF)
FileRead(p, want) ==
  IF p >= Len(data) THEN << >> ELSE Slice(data, p, Min(p + want, Len(data)))

\* one pass of scanReader's loop: Read into buf[start:], search, then
\* return the slice behind sep or carry the last len(sep)-1 bytes over.
\* A Read error ends nextFileHeader, searchFileHeaders and main, which prints it.
\* copy(buf[:start], buf[n-start:]) panics when n < start.
Scan ==
  /\ pc = "scan"
  /\ LET got   == FileRead(pos, BufSize - start)
         n     == start + Len(got)
         full  == Slice(buf, 0, start) \o got \o Slice(buf, n, BufSize)
         idx   == Index(Slice(full, 0, n), Sep)
         carry == CarryLen(Sep)
     IN  /\ readFrom' = pos
         /\ IF got = << >>
            THEN /\ err' = "EOF"
                 /\ pc' = "done"
                 /\ event' = "scan-eof"
                 /\ UNCHANGED << pos, buf, start, rest, tail, sigStart, buffered, found >>
            ELSE /\ pos' = pos + Len(got)
                 /\ err' = err
                 /\ IF idx # -1
                    THEN /\ rest' = AfterSep(full, idx, Sep, n)
                         /\ tail' = Slice(full, n, BufSize)
                         /\ buf' = full
                         /\ start' = start
                         /\ sigStart' = pos + Len(got) - n + idx
                         /\ buffered' = n - idx - Len(Sep)
                         /\ found' = Append(found, pos + Len(got) - n + idx)
                         /\ pc' = "topup"
                         /\ event' = "match"
                    ELSE /\ UNCHANGED << rest, tail, sigStart, buffered, found >>
                         /\ IF n - carry < 0
                            THEN /\ pc' = "panic"
                                 /\ buf' = full
                                 /\ start' = carry
                                 /\ event' = "panic"
                            ELSE /\ pc' = "scan"
                                 /\ buf' = Slice(full, n - carry, n) \o Slice(full, carry, BufSize)
                                 /\ start' = carry
                                 /\ event' = "carry"
  /\ UNCHANGED << data, made, h, out, scanFrom, reported, rejected >>

\* a top-up that takes a failed Read for a Read of no bytes and goes on to
\* decode
TopUpIgnoresError ==
  /\ pc = "topup"
  /\ IF Len(rest) < HeaderSize
     THEN LET got   == FileRead(pos, HeaderSize)
              k     == Len(got)
              grown == rest \o got \o Zeros(HeaderSize - k)
          IN  /\ rest' = ToppedUp(grown, k)
              /\ tail' = Slice(grown, Len(rest) + k, Len(grown))
              /\ pos' = pos + k
              /\ pc' = "decode"
              /\ event' = "toppedup"
              /\ err' = err
     ELSE /\ pc' = "decode"
          /\ event' = "enough"
          /\ UNCHANGED << pos, rest, tail, err >>
  /\ UNCHANGED << data, made, buf, start, h, out, sigStart, scanFrom, readFrom,
                  buffered, reported, rejected, found >>

\* nextFileHeader, lines 66-75: fewer than headersize bytes behind the
\* signature: append headersize zero bytes, Read into them, re-slice.
TopUp ==
  /\ pc = "topup"
  /\ IF Len(rest) < HeaderSize
     THEN LET got   == FileRead(pos, HeaderSize)
              k     == Len(got)
              grown == rest \o got \o Zeros(HeaderSize - k)
          IN  IF got = << >>
              THEN /\ err' = "EOF"
                   /\ pc' = "done"
                   /\ event' = "topup-eof"
                   /\ UNCHANGED << pos, rest, tail >>
              ELSE /\ rest' = ToppedUp(grown, k)
                   /\ tail' = Slice(grown, Len(rest) + k, Len(grown))
                   /\ pos' = pos + k
                   /\ pc' = "decode"
                   /\ event' = "toppedup"
                   /\ err' = err
     ELSE /\ pc' = "decode"
          /\ event' = "enough"
          /\ UNCHANGED << pos, rest, tail, err >>
  /\ UNCHANGED << data, made, buf, start, h, out, sigStart, scanFrom, readFrom,
                  buffered, reported, rejected, found >>

\* nextFileHeader, lines 76-105: decode the fixed fields, then either rewind
\* and scan again (a new scanReader call: start = 0, a fresh buffer; the
\* result of that Seek is dropped) or cut name and extra and seek behind them.
Decode ==
  /\ pc = "decode"
  /\ LET fixed == ReadFixed(rest)
     IN  IF Implausible(fixed)
         THEN /\ pos' = RewindPos(pos, rest)
              /\ scanFrom' = RewindPos(pos, rest)
              /\ pc' = "scan"
              /\ buf' = Zeros(BufSize)
              /\ start' = 0
              /\ h' = h
              /\ rejected' = rejected \cup { sigStart }
              /\ event' = "reject"
         ELSE /\ h' = WithNameExtra(fixed, rest \o tail)
              /\ pos' = AcceptPos(pos, rest, fixed)
              /\ pc' = "report"
              /\ event' = "accept"
              /\ UNCHANGED << buf, start, scanFrom, rejected >>
  /\ UNCHANGED << data, made, rest, tail, out, err, sigStart, readFrom, buffered,
                  reported, found >>

\* searchFileHeaders, lines 121-126: pos := f.Seek(0, io.SeekCurrent), print
\* the line, call nextFileHeader again (a new scanReader call)
Report ==
  /\ pc = "report"
  /\ out' = Append(out, [ name |-> h.name, pos |-> pos, size |-> h.size ])
  /\ reported' = Append(reported, [ sig |-> sigStart, hdr |-> h ])
  /\ pc' = "scan"
  /\ buf' = Zeros(BufSize)
  /\ start' = 0
  /\ scanFrom' = pos
  /\ event' = "report"
  /\ UNCHANGED << data, made, pos, rest, tail, h, err, sigStart, readFrom, buffered,
                  rejected, found >>

Next == Scan \/ TopUp \/ Decode \/ Report

Spec == Init /\ [][Next]_vars

\* ------------------------------------------------ what the file contains
\* the signature lies at file offset i
SigAt(i) == i >= 0 /\ i + Len(Sep) <= Len(data) /\ Slice(data, i, i + Len(Sep)) = Sep

\* every offset of the file at which the signature lies
Sigs == { i \in 0..(Len(data) - Len(Sep)) : SigAt(i) }

\* the two bytes at file offset i as a little-endian number
U16At(i) == data[i + 1] + 256 * data[i + 2]

\* the offset right behind the extra field of the header written at m.at
EndOf(m) == m.at + Len(Sep) + FixedLen + m.hdr.namelen + m.hdr.extralen

\* the run is over: main has printed the error, or the process has crashed
Ended == pc \in { "done", "panic" }

\* the header written at m.at was reported, with the fields written
IsReported(m) ==
  \E i \in DOMAIN reported : reported[i].sig = m.at /\ reported[i].hdr = m.hdr

\* ------------------------------------------------------------------ C1
\* C1: a file holding exactly one local file header (and no other
\* occurrence of the signature), of any length, makes searchFileHeaders
\* print exactly one line: the header's name, the offset right behind its
\* extra field and its declared uncompressed size.
C1_SingleEntryOneLine ==
  \A m \in made :
    (Ended /\ made = { m } /\ Sigs = { m.at })
      => out = << [ name |-> m.hdr.name, pos |-> EndOf(m), size |-> m.hdr.size ] >>

\* ------------------------------------------------------------------ C2
\* C2: whenever nextFileHeader returns a header for the signature of a
\* header written into the file, every field of it equals the value written.
C2_FieldRoundTrip ==
  pc = "report" => \A m \in made : m.at = sigStart => h = m.hdr

\* ------------------------------------------------------------------ C3
\* C3: every printed offset is the offset of the matched signature + 4 + 26
\* + nameLength + extraLength of the header reported on that line.
C3_OffsetBehindExtra ==
  \A i \in DOMAIN out :
    out[i].pos = reported[i].sig + Len(Sep) + FixedLen
                   + reported[i].hdr.namelen + reported[i].hdr.extralen

\* ------------------------------------------------------------------ C4
\* C4: scanReader misses no occurrence of the signature, whichever way the
\* reads cut it: while it carries over, no occurrence lies in the bytes read
\* so far; when it returns a slice, the match is the first occurrence at or
\* behind the offset the call began at and the slice is the file from right
\* behind the signature to the cursor; when it returns end of file, there
\* is no occurrence; and no occurrence is matched twice.
C4_NoMissedSignature ==
  /\ event = "carry" =>
       \A i \in Sigs : ~(scanFrom <= i /\ i + Len(Sep) <= pos)
  /\ event = "match" =>
       /\ SigAt(sigStart)
       /\ sigStart >= scanFrom
       /\ \A i \in Sigs : i >= scanFrom => sigStart <= i
       /\ rest = Slice(data, sigStart + Len(Sep), pos)
  /\ event = "scan-eof" => \A i \in Sigs : i < scanFrom
  /\ \A i, j \in DOMAIN found : i < j => found[i] < found[j]

\* a signature was matched whose first three bytes came with one Read and
\* whose last byte with the next
C4_Witness ==
  event = "match" /\ readFrom = sigStart + 3 /\ readFrom > scanFrom

\* ------------------------------------------------------------------ C5
\* C5: a rejection never moves the cursor behind the signature of a header
\* that starts later in the file, and at the end of the run every header
\* that starts behind a rejected signature has been reported.
C5_NoHeaderLostBehindRejection ==
  /\ event = "reject" => \A m \in made : m.at > sigStart => pos <= m.at
  /\ Ended => \A r \in rejected : \A m \in made : m.at > r => IsReported(m)

Dropped == IF buffered < HeaderSize THEN buffered ELSE 0

OneCoincidentalMagic ==
  \E s \in Sigs :
    /\ Sigs = { s }
    /\ s + Len(Sep) + FixedLen <= Len(data)
    /\ Implausible([ namelen  |-> U16At(s + Len(Sep) + 22),
                     extralen |-> U16At(s + Len(Sep) + 24) ])

\* C7: such a file makes the driver report nothing, the run does not crash
\* and ends with the end-of-file error of the scan.
C7_CoincidentalMagicNotReported ==
  OneCoincidentalMagic =>
    /\ out = << >>
    /\ pc # "panic"
    /\ pc = "done" => err = "EOF"

\* ------------------------------------------------------------------ C8
\* C8: the cursor nextFileHeader leaves on acceptance is signature start +
\* 4 + 26 + namelen + extralen, whatever csize and size say, and so a
\* second header whose signature lies inside the declared data of a
\* reported first one is reported as well.
C8_NoContentSkip ==
  /\ event = "accept" =>
       pos = sigStart + Len(Sep) + FixedLen + h.namelen + h.extralen
  /\ Ended =>
       \A m1, m2 \in made :
         (IsReported(m1) /\ EndOf(m1) <= m2.at /\ m2.at < EndOf(m1) + m1.hdr.csize)
           => IsReported(m2)

\* ------------------------------------------------------------------ C9
\* C9: two headers written back to back, the only signatures of the file,
\* are both printed, the first before the second, the second offset
\* greater than the first.
C9_BackToBack ==
  \A m1, m2 \in made :
    (Ended /\ made = { m1, m2 } /\ m2.at = EndOf(m1) /\ Sigs = { m1.at, m2.at })
      => /\ Len(out) = 2
         /\ reported[1].sig = m1.at /\ out[1].name = m1.hdr.name
         /\ reported[2].sig = m2.at /\ out[2].name = m2.hdr.name
         /\ out[1].pos < out[2].pos

\* ----------------------------------------------------------------- C10
\* C10: a file without the signature, of any length, prints no line, does
\* not crash, and ends with scanReader's end-of-file error.
C10_CleanExhaustion ==
  Sigs = {} =>
    /\ out = << >>
    /\ pc # "panic"
    /\ pc = "done" => (err = "EOF" /\ event = "scan-eof")

\* ----------------------------------------------------------------- C11
\* C11: after a top-up the region nextFileHeader decodes is the bytes that
\* were buffered behind the signature followed by the bytes just read: it
\* is the file from right behind the signature to the cursor, and its
\* length is buffered bytes + bytes read.
C11_TopUpKeepsBuffered ==
  event = "toppedup" =>
    /\ rest = Slice(data, sigStart + Len(Sep), pos)
    /\ Len(rest) = buffered + (pos - (sigStart + Len(Sep) + buffered))

\* ------------------------------------------------- failing reads and seeks
\* scanReader, lines 32-35: r.Read returns an error that is not io.EOF; it
\* goes up through nextFileHeader and searchFileHeaders to main
ScanReadFails ==
  /\ pc = "scan"
  /\ err' = "read error"
  /\ pc' = "done"
  /\ event' = "scan-readfail"
  /\ readFrom' = pos
  /\ UNCHANGED << data, made, pos, buf, start, rest, tail, h, out, sigStart, scanFrom,
                  buffered, reported, rejected, found >>

\* nextFileHeader, lines 70-73: the top-up r.Read returns an error that is
\* not io.EOF
TopUpReadFails ==
  /\ pc = "topup"
  /\ Len(rest) < HeaderSize
  /\ err' = "read error"
  /\ pc' = "done"
  /\ event' = "topup-readfail"
  /\ UNCHANGED << data, made, pos, buf, start, rest, tail, h, out, sigStart, scanFrom,
                  readFrom, buffered, reported, rejected, found >>

\* nextFileHeader, lines 91-94 and 100-103, when r.Seek returns an error
\* and leaves the cursor where it is: on rejection "_, err = r.Seek(...)"
\* is followed by "continue" and the next pass assigns a new err, so
\* scanReader is called again; on acceptance the error is returned.
DecodeSeekFails ==
  /\ pc = "decode"
  /\ LET fixed == ReadFixed(rest)
     IN  IF Implausible(fixed)
         THEN /\ scanFrom' = pos
              /\ pc' = "scan"
              /\ buf' = Zeros(BufSize)
              /\ start' = 0
              /\ h' = h
              /\ err' = err
              /\ rejected' = rejected \cup { sigStart }
              /\ event' = "reject-seekfail"
         ELSE /\ h' = WithNameExtra(fixed, rest \o tail)
              /\ err' = "seek error"
              /\ pc' = "done"
              /\ event' = "accept-seekfail"
              /\ UNCHANGED << buf, start, scanFrom, rejected >>
  /\ UNCHANGED << data, made, pos, rest, tail, out, sigStart, readFrom, buffered,
                  reported, found >>

\* searchFileHeaders, lines 121-124: f.Seek(0, io.SeekCurrent) returns an error
ReportSeekFails ==
  /\ pc = "report"
  /\ err' = "seek error"
  /\ pc' = "done"
  /\ event' = "report-seekfail"
  /\ UNCHANGED << data, made, pos, buf, start, rest, tail, h, out, sigStart, scanFrom,
                  readFrom, buffered, reported, rejected, found >>

NextIOFail ==
  \/ Next
  \/ ScanReadFails
  \/ TopUpReadFails
  \/ DecodeSeekFails
  \/ ReportSeekFails

\* the program on a file whose reads and seeks may fail
SpecIOFail == Init /\ [][NextIOFail]_vars

\* ----------------------------------------------------------------- C12
\* C12: a Seek that fails inside nextFileHeader, on the rejection path or
\* on the acceptance path, ends the run with that error; no scan follows it.
C12_SeekFailureFatal ==
  event \in { "reject-seekfail", "accept-seekfail" } =>
    (pc = "done" /\ err = "seek error")

\* ----------------------------------------------------------------- C13
\* C13 as claimed: the cursor moves backward only in the rewind of a
\* rejection; such a rewind is shorter than one read chunk and does not go
\* back behind the end of the rejected signature.
C13_OnlyRejectionRewinds ==
  [][ pos' < pos =>
        /\ event' = "reject"
        /\ pos - pos' < BufSize
        /\ pos' >= sigStart + Len(Sep) ]_vars

\* C13 as amended: the cursor moves backward only in the seeks of
\* nextFileHeader, the rewind of a rejection and the seek to the end of the
\* extra field of an accepted header; each of them is shorter than one read
\* chunk and does not go back behind the end of the matched signature.
C13_OnlyDecoderSeeksBack ==
  [][ pos' < pos =>
        /\ event' \in { "reject", "accept" }
        /\ pos - pos' < BufSize
        /\ pos' >= sigStart + Len(Sep) ]_vars

\* a header was accepted and the cursor went back from the end of the chunk
\* to the end of its extra field
C13_Witness ==
  /\ event = "accept"
  /\ buffered >= HeaderSize
  /\ pos < sigStart + Len(Sep) + buffered
  /\ rejected # {}

\* ----------------------------------------------------------------- C14
\* C14: when the top-up Read returns an error, end of file included,
\* nextFileHeader returns it without a header: the run ends with that
\* error, nothing is decoded, rejected or printed for the candidate.  So a
\* signature with fewer than headersize bytes buffered behind it and no
\* more data in the file yields no line.
C14_TopUpErrorFatal ==
  /\ [][ ( /\ pc = "topup"
           /\ Len(rest) < HeaderSize
           /\ (pos >= Len(data) \/ event' = "topup-readfail") )
         => ( /\ pc' = "done"
              /\ err' \in { "EOF", "read error" }
              /\ out' = out /\ reported' = reported
              /\ h' = h /\ rejected' = rejected ) ]_vars
  /\ [] ( event \in { "topup-eof", "topup-readfail" } =>
            /\ pc = "done"
            /\ buffered < HeaderSize
            /\ \A i \in DOMAIN reported : reported[i].sig # sigStart )

\* the top-up for the signature of a header written into the file met the
\* end of the file
C14_Witness ==
  /\ event = "topup-eof"
  /\ buffered > 0
  /\ \E m \in made : m.at = sigStart

\* ----------------------------------------------------------------- C15
\* the program runs on until main returns or the process crashes
SpecFair == Spec /\ WF_vars(Next)

\* C15: every scanReader call that follows a rejection or a printed line
\* starts at a greater file offset than the call before it, and the run
\* comes to an end.
C15_ProgressAndTermination ==
  /\ [][ event' \in { "reject", "report" } => scanFrom' > scanFrom ]_vars
  /\ <>Ended

\* a run with a rejection and a printed line has come to its end
C15_Witness ==
  /\ Ended
  /\ rejected # {}
  /\ Len(out) >= 1
  /\ Len(found) >= 2

\* ----------------------------------------------------------------- C16
\* C16: whenever nextFileHeader accepts a candidate, the region it decoded
\* holds at least 26 + namelen + extralen bytes read from the file, so that
\* the fixed fields, name and extra are all bytes of the file.
C16_ReportedBytesFromStream ==
  event = "accept" => Len(rest) >= FixedLen + h.namelen + h.extralen

====
